---- MODULE Spec2Model ----
(***************************************************************************)
(* Provably fair numbers (src/pfn-v2.js, class ProvablyFairNumbersV2).     *)
(*                                                                         *)
(* An instance holds clientSeed, serverSeed, serverHash, nonce and index.  *)
(* Every value it returns is derived from the HMAC-SHA256 digest of the    *)
(* message clientSeed-nonce[-index] keyed by serverSeed.                   *)
(*                                                                         *)
(* Scaling.  TLC integers are 32 bits wide, so the widths of the source    *)
(* are scaled down together: the 32-bit draw of randomInt has WordBits     *)
(* bits, the 52-bit mantissa of random() has WordBits+1 bits, the 256-bit  *)
(* digest has WordBits+1 bits.  The relations between them (the draw is    *)
(* the top bits of the mantissa, the mantissa the top bits of the digest)  *)
(* are the source's.  Floating-point values are kept as exact fractions    *)
(* over a fixed denominator.                                               *)
(*                                                                         *)
(* HMAC.  The digest of a message is unknown but fixed: hmac remembers the *)
(* digest drawn for the message an instance currently points at, so that   *)
(* reading the same position twice gives the same bytes, and a message     *)
(* never read before gets any digest.  Digests of positions the instances  *)
(* have left are forgotten, which only adds behaviours.                    *)
(*                                                                         *)
(* Each method of the class is an operator from (instance, hmac,           *)
(* arguments) to the set of its possible outcomes                          *)
(*   [s: instance after, h: hmac after, status, ret, error]                *)
(* and an action that applies it to the instance pfn.  The caller holds    *)
(* the result of a call (last) until it takes it (Return) or makes the     *)
(* same call again (Repeat).                                               *)
(*                                                                         *)
(* The object pump returns carries two closures, survivalAt and            *)
(* payoutMultiplierAt; they are operators on the game record and are       *)
(* called in GameSpec.  The first version of the class (src/pfn.js, class  *)
(* ProvablyFairNumbers) is modelled beside the second in CompatSpec, where *)
(* both instances are built from the same seeds and read the same digest:  *)
(* the first version reads it whole and rounds it to a double of           *)
(* FloatBits bits, the second reads its leading MantissaBits bits.         *)
(***************************************************************************)
EXTENDS Integers, Sequences, FiniteSets, TLC

VARIABLES
  pfn,   \* the instance: [clientSeed, serverSeed, serverHash, nonce, index]
  hmac,  \* the digest of the current message, once read: key -> digest
  ctor,  \* the arguments the constructor was called with
  last,  \* the call whose result the caller holds: [op, args, pre, status,
         \* ret, error, read], or NoCall
  prev,  \* the call before last, when last repeats it
  pfnV1, \* the instance of the first version of the class (src/pfn.js):
         \* [clientSeed, serverSeed, serverHash, nonce], or NoInstance
  game   \* the game object of pump the caller holds, or NoGame

vars == <<pfn, hmac, ctor, last, prev, pfnV1, game>>

----------------------------------------------------------------------------
(* Bounds of the model *)

\* bits of the draw of randomInt (32 in the source)
WordBits == 2
\* largest value a counter takes
MaxCounter == 2

----------------------------------------------------------------------------
(* Values *)

RECURSIVE Pow(_, _)
Pow(b, n) == IF n = 0 THEN 1 ELSE b * Pow(b, n - 1)

\* 2 ** 32 of randomInt
WordSize == Pow(2, WordBits)
\* the 52 bits of random()
MantissaBits == WordBits + 1
MantissaSize == Pow(2, MantissaBits)
\* the 256 bits of a SHA-256 digest
DigestBits == MantissaBits
Digests == 0 .. (Pow(2, DigestBits) - 1)

\* null (index) and undefined (clientSeed, return values); strings are
\* sequences of one-character strings
Null == << >>
Undefined == <<"undefined">>
Num(n) == <<n>>
EmptyString == << >>

\* !seed of JavaScript: undefined and '' are falsy
Falsy(seed) == seed = Undefined \/ seed = EmptyString

DigitChars == <<"0", "1", "2", "3", "4", "5", "6", "7", "8", "9">>

\* String(n) for an integer
RECURSIVE NumberToString(_)
NumberToString(n) ==
  IF n < 0 THEN <<"-">> \o NumberToString(-n)
  ELSE IF n < 10 THEN <<DigitChars[n + 1]>>
  ELSE NumberToString(n \div 10) \o <<DigitChars[(n % 10) + 1]>>

\* crypto.createHash('sha256'): an injective image of its input
Sha256(bytes) == [sha256 |-> bytes]

\* crypto.randomBytes(..).toString('hex').slice(0, length): some hex string,
\* never empty for length 64
HexStrings == { <<"e">>, <<"f">> }

generateRandomHex == HexStrings

generateServerSeedHash(s) == Sha256(s.serverSeed)

setClientSeed(s, seed) == [s EXCEPT !.clientSeed = seed]

\* clientSeed.join('|')
RECURSIVE Join(_)
Join(seeds) ==
  IF Len(seeds) = 0 THEN EmptyString
  ELSE IF Len(seeds) = 1 THEN Head(seeds)
  ELSE Head(seeds) \o <<"|">> \o Join(Tail(seeds))

\* A client seed argument: a string (or Undefined), or an array of strings
Str(v) == [array |-> FALSE, v |-> v]
Arr(v) == [array |-> TRUE, v |-> v]

\* the constructor with serverHash computed before serverSeed is assigned
constructorHashFirst(clientSeed, serverSeed, nonce, index) ==
  { LET s0 == [clientSeed |-> Undefined, serverSeed |-> ss,
               serverHash |-> Sha256(serverSeed), nonce |-> nonce, index |-> index]
    IN IF clientSeed.array
       THEN setClientSeed(s0, Join(clientSeed.v))
       ELSE IF ~Falsy(clientSeed.v)
       THEN setClientSeed(s0, clientSeed.v)
       ELSE s0
    : ss \in IF Falsy(serverSeed) THEN generateRandomHex ELSE {serverSeed} }

\* The constructor: the instances it can build from its arguments (an array
\* is truthy even when empty).  index is Null or Num(n).
constructor(clientSeed, serverSeed, nonce, index) ==
  { LET s0 == [clientSeed |-> Undefined, serverSeed |-> ss,
               serverHash |-> Sha256(ss), nonce |-> nonce, index |-> index]
    IN IF clientSeed.array
       THEN setClientSeed(s0, Join(clientSeed.v))
       ELSE IF ~Falsy(clientSeed.v)
       THEN setClientSeed(s0, clientSeed.v)
       ELSE s0
    : ss \in IF Falsy(serverSeed) THEN generateRandomHex ELSE {serverSeed} }

\* nextIndex that increments nonce whatever the mode
nextIndexNonce(s) == [s EXCEPT !.nonce = @ + 1]

\* nextIndex: ++index in index mode, ++nonce otherwise
nextIndex(s) ==
  IF s.index = Null
  THEN [s EXCEPT !.nonce = @ + 1]
  ELSE [s EXCEPT !.index = Num(@[1] + 1)]

\* the value nextIndex returns
Counter(s) == IF s.index = Null THEN s.nonce ELSE s.index[1]

\* the message without its index part
MessageNoIndex(s) == s.clientSeed \o <<"-">> \o NumberToString(s.nonce)

\* the string _currentHmacBuf hashes
Message(s) ==
  s.clientSeed \o <<"-">> \o NumberToString(s.nonce)
    \o (IF s.index # Null THEN <<"-">> \o NumberToString(s.index[1]) ELSE EmptyString)

Key(s) == <<s.serverSeed, Message(s)>>

\* hmac restricted to the messages the instances of `insts` point at
Keep(h, insts) ==
  LET keys == { Key(i) : i \in insts } \cap DOMAIN h
  IN [k \in keys |-> h[k]]

\* _currentHmacBuf with the generated client seed used but not stored
currentHmacBufSeedDropped(s, h) ==
  UNION {
    LET k == Key(s1)
    IN IF k \in DOMAIN h
       THEN { [s |-> s, h |-> h, d |-> h[k]] }
       ELSE { [s |-> s, h |-> (k :> d) @@ h, d |-> d] : d \in Digests }
    : s1 \in IF Falsy(s.clientSeed)
             THEN { setClientSeed(s, g) : g \in generateRandomHex }
             ELSE { s } }

\* _currentHmacBuf with a digest that does not depend on the key and message
currentHmacBufUnkeyed(s, h) ==
  UNION {
    { [s |-> s1, h |-> (Key(s1) :> d) @@ h, d |-> d] : d \in Digests }
    : s1 \in IF Falsy(s.clientSeed)
             THEN { setClientSeed(s, g) : g \in generateRandomHex }
             ELSE { s } }

\* _currentHmacBuf: generates the client seed when there is none, then
\* returns the digest of the current message
currentHmacBuf(s, h) ==
  UNION {
    LET k == Key(s1)
    IN IF k \in DOMAIN h
       THEN { [s |-> s1, h |-> h, d |-> h[k]] }
       ELSE { [s |-> s1, h |-> (k :> d) @@ h, d |-> d] : d \in Digests }
    : s1 \in IF Falsy(s.clientSeed)
             THEN { setClientSeed(s, g) : g \in generateRandomHex }
             ELSE { s } }

\* Outcomes: ret is <<v>> for a returned value v and << >> for none
\* (undefined, or no return at all); error is the message of a thrown Error
Returned(s, h, v) ==
  [s |-> s, h |-> h, status |-> "returned", ret |-> <<v>>, error |-> ""]
ReturnedUndefined(s, h) ==
  [s |-> s, h |-> h, status |-> "returned", ret |-> << >>, error |-> ""]
Threw(s, h, msg) ==
  [s |-> s, h |-> h, status |-> "threw", ret |-> << >>, error |-> msg]
\* the call never returns
Diverges(s, h) ==
  [s |-> s, h |-> h, status |-> "diverges", ret |-> << >>, error |-> ""]

\* the last 52 bits of the digest instead of the first
MantissaLow(d, bits) == d % MantissaSize

\* the first 52 bits of a digest of the given number of bits:
\* hi32 * 2^20 + (lo32 >>> 12)
MantissaOf(d, bits) == d \div Pow(2, bits - MantissaBits)

\* the first 52 bits of the digest
Mantissa(d) == MantissaOf(d, DigestBits)

\* randomLong: the whole digest as one big-endian integer
randomLong(s, h) == { Returned(b.s, b.h, b.d) : b \in currentHmacBuf(s, h) }

\* random with a call of nextIndex before the digest is read
randomAdvancing(s, h) ==
  { Returned(b.s, b.h, Mantissa(b.d)) : b \in currentHmacBuf(nextIndex(s), h) }

\* random: mantissa * 2^-52, returned as the numerator over MantissaSize
random(s, h) == { Returned(b.s, b.h, Mantissa(b.d)) : b \in currentHmacBuf(s, h) }

\* Math.floor(r * 2 ** 32) for r = m / MantissaSize
Draw(m) == (m * WordSize) \div MantissaSize

\* the range taken one too large
RangeOffByOne(min, max) == max - min + 2

\* range = max - min + 1
Range(min, max) == max - min + 1

\* the whole word as the limit: no draw is rejected
MaxRangeWord(range) == WordSize

\* Math.floor(2 ** 32 / range) * range
MaxRange(range) == (WordSize \div range) * range

\* the loop of randomInt with nextIndex called on every pass, the first too
RECURSIVE randomIntLoopAlways(_, _, _, _, _)
randomIntLoopAlways(s, h, min, max, c) ==
  LET range == Range(min, max)
      s1 == nextIndex(s)
  IN IF Counter(s1) > MaxCounter THEN {}
     ELSE UNION {
       LET i == Draw(r.ret[1])
       IN IF i >= MaxRange(range)
          THEN randomIntLoopAlways(r.s, r.h, min, max, c + 1)
          ELSE { Returned(r.s, r.h, (i % range) + min) }
       : r \in random(s1, h) }

\* the do-while loop of randomInt entered with its counter c
RECURSIVE randomIntLoop(_, _, _, _, _)
randomIntLoop(s, h, min, max, c) ==
  LET range == Range(min, max)
      s1 == IF c # 0 THEN nextIndex(s) ELSE s
  IN IF Counter(s1) > MaxCounter THEN {}
     ELSE UNION {
       LET i == Draw(r.ret[1])
       IN IF i >= MaxRange(range)
          THEN randomIntLoop(r.s, r.h, min, max, c + 1)
          ELSE { Returned(r.s, r.h, (i % range) + min) }
       : r \in random(s1, h) }

\* no digest ends the loop of randomInt
AlwaysRejects(min, max) ==
  \A d \in Digests : Draw(Mantissa(d)) >= MaxRange(Range(min, max))

randomInt(s, h, min, max) ==
  IF max < min THEN { Threw(s, h, "randomInt: max < min") }
  ELSE IF AlwaysRejects(min, max)
  THEN { Diverges(r.s, r.h) : r \in random(s, h) }
  ELSE randomIntLoop(s, h, min, max, 0)

\* v.toFixed(precision) of the fraction num/den >= 0, as the integer n with
\* value n / 10^precision: the nearest n, the larger one on a tie
ToFixed(num, den, precision) ==
  (2 * num * Pow(10, precision) + den) \div (2 * den)

\* randomFloat: min + r * (max - min) rounded to precision digits; returns
\* [n, scale] for the number n / scale
randomFloat(s, h, min, max, precision) ==
  IF max < min THEN { Threw(s, h, "randomFloat: max < min") }
  ELSE { Returned(r.s, r.h,
           [n |-> ToFixed(min * MantissaSize + r.ret[1] * (max - min),
                          MantissaSize, precision),
            scale |-> Pow(10, precision)])
         : r \in random(s, h) }

next(s, h) == random(nextIndex(s), h)

nextFloat(s, h, min, max, precision) ==
  randomFloat(nextIndex(s), h, min, max, precision)

\* nextInt without its call of nextIndex
nextIntPeek(s, h, min, max) == randomInt(s, h, min, max)

nextInt(s, h, min, max) == randomInt(nextIndex(s), h, min, max)

\* the elements of a sequence
Elems(list) == { list[k] : k \in 1 .. Len(list) }

\* the loop of randomIntRange that keeps a value it has already picked
RECURSIVE randomIntRangeLoopRepeats(_, _, _, _, _, _, _)
randomIntRangeLoopRepeats(s, h, min, max, size, unique, list) ==
  IF Len(list) >= size THEN { Returned(s, h, [l |-> list]) }
  ELSE UNION {
    IF o.status # "returned" THEN { o }
    ELSE randomIntRangeLoopRepeats(o.s, o.h, min, max, size, unique,
           Append(list, o.ret[1]))
    : o \in nextInt(s, h, min, max) }

\* while (list.length < size): draw nextInt, keep it if unique is false or
\* the value is new
RECURSIVE randomIntRangeLoop(_, _, _, _, _, _, _)
randomIntRangeLoop(s, h, min, max, size, unique, list) ==
  IF Len(list) >= size THEN { Returned(s, h, [l |-> list]) }
  ELSE UNION {
    IF o.status # "returned" THEN { o }
    ELSE randomIntRangeLoop(o.s, o.h, min, max, size, unique,
           IF unique /\ o.ret[1] \in Elems(list) THEN list
           ELSE Append(list, o.ret[1]))
    : o \in nextInt(s, h, min, max) }

\* randomIntRange without its check of the bounds
randomIntRangeUnchecked(s, h, min, max, size, unique) ==
  LET size0 == IF size < 0 THEN 0 ELSE size
      domain == max - min + 1
      size1 == IF unique /\ size0 > domain THEN domain ELSE size0
  IN randomIntRangeLoop(s, h, min, max, size1, unique, << >>)

randomIntRange(s, h, min, max, size, unique) ==
  IF max < min THEN { Threw(s, h, "randomIntRange: max < min") }
  ELSE LET size0 == IF size < 0 THEN 0 ELSE size
           domain == max - min + 1
           size1 == IF unique /\ size0 > domain THEN domain ELSE size0
       IN randomIntRangeLoop(s, h, min, max, size1, unique, << >>)

\* Number.isFinite(weight) && weight > 0 for an entry [key, weight, finite]
ValidEntry(e) == e.finite /\ e.weight > 0

RECURSIVE SelectValid(_)
SelectValid(spec) ==
  IF spec = << >> THEN << >>
  ELSE IF ValidEntry(Head(spec)) THEN <<Head(spec)>> \o SelectValid(Tail(spec))
  ELSE SelectValid(Tail(spec))

RECURSIVE Total(_)
Total(entries) ==
  IF entries = << >> THEN 0 ELSE Head(entries).weight + Total(Tail(entries))

\* the walk that stops where t reaches 0 as well as below it
RECURSIVE WalkInclusive(_, _, _)
WalkInclusive(entries, i, t) ==
  IF i > Len(entries) THEN entries[Len(entries)].key
  ELSE IF t - entries[i].weight * MantissaSize <= 0 THEN entries[i].key
  ELSE WalkInclusive(entries, i + 1, t - entries[i].weight * MantissaSize)

\* the walk of weightedRandom: t (times MantissaSize) less the weights in order
RECURSIVE Walk(_, _, _)
Walk(entries, i, t) ==
  IF i > Len(entries) THEN entries[Len(entries)].key
  ELSE IF t - entries[i].weight * MantissaSize < 0 THEN entries[i].key
  ELSE Walk(entries, i + 1, t - entries[i].weight * MantissaSize)

\* weightedRandom: spec is the sequence of the object's own entries in
\* enumeration order
weightedRandom(s, h, spec) ==
  LET validEntries == SelectValid(spec)
  IN IF Len(validEntries) = 0 THEN { ReturnedUndefined(s, h) }
     ELSE { Returned(r.s, r.h, Walk(validEntries, 1, r.ret[1] * Total(validEntries)))
            : r \in random(s, h) }

\* the exchange without its temporary: arr[j] is lost
SwapOverwrite(arr, i, j) == [arr EXCEPT ![i + 1] = arr[j + 1]]

\* arr with positions i and j (counted from 0) exchanged
Swap(arr, i, j) ==
  [k \in 1 .. Len(arr) |->
     IF k = i + 1 THEN arr[j + 1] ELSE IF k = j + 1 THEN arr[i + 1] ELSE arr[k]]

\* while (m): i = nextInt(0, --m); swap arr[m] and arr[i]
RECURSIVE shuffleLoop(_, _, _, _)
shuffleLoop(s, h, arr, m) ==
  IF m = 0 THEN { Returned(s, h, arr) }
  ELSE UNION {
    IF o.status # "returned" THEN { o }
    ELSE shuffleLoop(o.s, o.h, Swap(arr, m - 1, o.ret[1]), m - 1)
    : o \in nextInt(s, h, 0, m - 1) }

shuffle(s, h, arr) == shuffleLoop(s, h, arr, Len(arr))

\* eps with the house edge always taken as a percentage
EpsPercent(houseEdge) == houseEdge

\* eps of crash and highMultiplier, in units of 1/10000, for a house edge
\* given in hundredths: houseEdge >= 1 ? houseEdge / 100 : houseEdge
Eps(houseEdge) == IF houseEdge >= 100 THEN houseEdge ELSE houseEdge * 100

Min(a, b) == IF a < b THEN a ELSE b
Max(a, b) == IF a > b THEN a ELSE b

\* crash: floor(100 * (1 - eps) / (1 - r)) / 100 clamped to [1, max];
\* houseEdge and the result are in hundredths
crash(s, h, houseEdge, max) ==
  { LET raw100 == ((10000 - Eps(houseEdge)) * MantissaSize)
                    \div (100 * (MantissaSize - r.ret[1]))
    IN Returned(r.s, r.h, Min(Max(100, raw100), max * 100))
    : r \in random(s, h) }

\* the first 4 bytes of the digest, which getBytes(4) returns
Word(d) == d \div Pow(2, DigestBits - WordBits)

\* getBytes(4): the first bytes of the current digest, as one big-endian word
getBytes(s, h) == { Returned(b.s, b.h, Word(b.d)) : b \in currentHmacBuf(s, h) }

\* bytesToFloat: sum of bytes[i] / 256^(i+1), the word over WordSize; the
\* numerator is returned
bytesToFloat(word) == word

\* Math.floor(f * 16777216) for f = word / WordSize: 24 of the 32 bits
HighSize == Pow(2, WordBits - 1)
HighValue(word) == (bytesToFloat(word) * HighSize) \div WordSize

\* highMultiplier: 2^24 / (value + 1) * (1 - eps) clamped to
\* [1, maxMultiplier] and rounded to precision digits; returns [n, scale]
highMultiplier(s, h, houseEdge, maxMultiplier, precision) ==
  { LET value == HighValue(b.ret[1])
        num == HighSize * (10000 - Eps(houseEdge))
        den == (value + 1) * 10000
        n == IF num < den THEN ToFixed(1, 1, precision)
             ELSE IF num > maxMultiplier * den THEN ToFixed(maxMultiplier, 1, precision)
             ELSE ToFixed(num, den, precision)
    IN Returned(b.s, b.h, [n |-> n, scale |-> Pow(10, precision)])
    : b \in getBytes(s, h) }

\* the map without its fallback: an unknown name gives no burst count
DifficultyMapNoFallback(name) ==
  CASE name = "easy" -> 1
    [] name = "medium" -> 3
    [] name = "hard" -> 5
    [] name = "expert" -> 10
    [] OTHER -> 0

\* difficultyMap[name] || 3
DifficultyMap(name) ==
  CASE name = "easy" -> 1
    [] name = "medium" -> 3
    [] name = "hard" -> 5
    [] name = "expert" -> 10
    [] OTHER -> 3

\* the selected position left where it is: it can be selected again
TakeKeeps(positions, j, remaining) == positions

\* positions[j] = positions[remaining] after remaining--: the selected
\* position gives way to the last of those still remaining
\* (positions[j + 1] is the source's positions[j])
Take(positions, j, remaining) ==
  [positions EXCEPT ![j + 1] = positions[remaining]]

\* the selection loop drawing with randomInt: no position is left behind
RECURSIVE pumpLoopPeek(_, _, _, _, _, _, _, _)
pumpLoopPeek(s, h, positions, remaining, firstBurst, i, burstPoints, picked) ==
  IF i >= burstPoints
  THEN { Returned(s, h, [firstBurst |-> firstBurst, selected |-> picked]) }
  ELSE UNION {
    IF o.status # "returned" THEN { o }
    ELSE LET j == o.ret[1]
             selected == positions[j + 1]
         IN pumpLoopPeek(o.s, o.h,
                     Take(positions, j, remaining),
                     remaining - 1,
                     IF selected < firstBurst THEN selected ELSE firstBurst,
                     i + 1, burstPoints, Append(picked, selected))
    : o \in randomInt(s, h, 0, remaining - 1) }

\* the selection loop of pump: burstPoints draws of nextInt(0, remaining - 1)
\* over positions; picked is the value of `selected` on each pass so far
RECURSIVE pumpLoop(_, _, _, _, _, _, _, _)
pumpLoop(s, h, positions, remaining, firstBurst, i, burstPoints, picked) ==
  IF i >= burstPoints
  THEN { Returned(s, h, [firstBurst |-> firstBurst, selected |-> picked]) }
  ELSE UNION {
    IF o.status # "returned" THEN { o }
    ELSE LET j == o.ret[1]
             selected == positions[j + 1]
         IN pumpLoop(o.s, o.h,
                     Take(positions, j, remaining),
                     remaining - 1,
                     IF selected < firstBurst THEN selected ELSE firstBurst,
                     i + 1, burstPoints, Append(picked, selected))
    : o \in nextInt(s, h, 0, remaining - 1) }

\* pump: opts is a record holding the options that are given, among nonce,
\* index, difficulty ([num |-> n] or [name |-> str]), size and edge (in
\* units of 1/10000).  A size or numeric difficulty that is no integer is
\* n + 1/2, written with sizeHalf |-> TRUE or [num |-> n, half |-> TRUE].
\* The game object is returned as its size, burstPoints and popPoint, with
\* the edge its closures hold and the positions the loop selected.
pump(s, h, opts) ==
  LET s1 == IF "nonce" \in DOMAIN opts THEN [s EXCEPT !.nonce = opts.nonce] ELSE s
      s2 == IF "index" \in DOMAIN opts THEN [s1 EXCEPT !.index = opts.index] ELSE s1
      size == IF "size" \in DOMAIN opts THEN opts.size ELSE 25
      burstPoints ==
        IF "difficulty" \in DOMAIN opts
        THEN IF "num" \in DOMAIN opts.difficulty
             THEN opts.difficulty.num
             ELSE DifficultyMap(opts.difficulty.name)
        ELSE DifficultyMap("medium")
      edge == IF "edge" \in DOMAIN opts THEN opts.edge ELSE 200
      sizeIsInteger == "sizeHalf" \notin DOMAIN opts
      burstIsInteger ==
        IF "difficulty" \in DOMAIN opts
        THEN "half" \notin DOMAIN opts.difficulty
        ELSE TRUE
  IN IF ~(sizeIsInteger /\ size >= 2) THEN { Threw(s2, h, "pump: invalid size") }
     ELSE IF ~(burstIsInteger /\ burstPoints >= 1 /\ burstPoints <= size)
     THEN { Threw(s2, h, "pump: invalid difficulty") }
     ELSE { IF o.status # "returned" THEN o
            ELSE Returned(o.s, o.h,
                   [size |-> size, burstPoints |-> burstPoints,
                    popPoint |-> o.ret[1].firstBurst + 1, edge |-> edge,
                    selected |-> o.ret[1].selected])
            : o \in pumpLoop(s2, h, [k \in 1 .. size |-> k - 1], size, size,
                             0, burstPoints, << >>) }

\* The closures of a game object g = [size, burstPoints, popPoint, edge].
\* Their argument is the integer n or the number n + 1/2: [n, half].
Whole(n) == [n |-> n, half |-> FALSE]
Half(n) == [n |-> n, half |-> TRUE]

\* k <= c for an argument k and an integer c
AtMost(k, c) == IF k.half THEN k.n < c ELSE k.n <= c

RECURSIVE Gcd(_, _)
Gcd(a, b) == IF b = 0 THEN a ELSE Gcd(b, a % b)

\* the number num/den >= 0, in lowest terms.  A product of such quotients is
\* kept exact, where the source rounds each to a double.
Fraction(num, den) ==
  LET g == Gcd(num, den) IN [num |-> num \div g, den |-> den \div g]

\* Math.round(x * scale) for x = f.num / f.den >= 0
MathRound(f, scale) == (2 * f.num * scale + f.den) \div (2 * f.den)

\* for (t = 0; t < k; t++) s *= (size - burstPoints - t) / (size - t)
RECURSIVE survivalLoop(_, _, _, _)
survivalLoop(g, k, t, s) ==
  IF ~(IF k.half THEN t <= k.n ELSE t < k.n) THEN s
  ELSE survivalLoop(g, k, t + 1,
         Fraction(s.num * (g.size - g.burstPoints - t), s.den * (g.size - t)))

\* survivalAt with the rounds from size - burstPoints on given as lost
survivalAtEarlyZero(g, k) ==
  IF AtMost(k, 0) THEN Fraction(1, 1)
  ELSE IF k.n >= g.size - g.burstPoints THEN Fraction(0, 1)
  ELSE survivalLoop(g, k, 0, Fraction(1, 1))

\* survivalAt(k): 1 for k <= 0, 0 for k > size - burstPoints, else the
\* product of the loop
survivalAt(g, k) ==
  IF AtMost(k, 0) THEN Fraction(1, 1)
  ELSE IF ~AtMost(k, g.size - g.burstPoints) THEN Fraction(0, 1)
  ELSE survivalLoop(g, k, 0, Fraction(1, 1))

\* the outcome of a closure: it changes no instance
Gave(v) == [status |-> "returned", ret |-> <<v>>, error |-> ""]
Raised(msg) == [status |-> "threw", ret |-> << >>, error |-> msg]

\* payoutMultiplierAt(round), in hundredths: 0 unless round is an integer in
\* [0, popPoint); else BigInt(round((1 - edge) * 10000)) * 100n /
\* BigInt(round(s * 10000)), a division of BigInts, which throws a
\* RangeError when the divisor is 0n
payoutMultiplierAt(g, round) ==
  IF round.half \/ round.n < 0 \/ round.n >= g.popPoint THEN Gave(0)
  ELSE LET s == survivalAt(g, round)
       IN IF s.num > 0
          THEN IF MathRound(s, 10000) = 0
               THEN Raised("RangeError: Division by zero")
               ELSE Gave(((10000 - g.edge) * 100) \div MathRound(s, 10000))
          ELSE Gave(0)

----------------------------------------------------------------------------
(* The first version of the class (src/pfn.js, class ProvablyFairNumbers). *)
(* An instance holds clientSeed, serverSeed, serverHash and nonce; its     *)
(* message is clientSeed-nonce.  It reads the whole digest as one number,  *)
(* which a double holds to 53 bits only, so its digests carry bits below   *)
(* those random() of the second version keeps.                             *)

\* the 53 bits of the significand of a double
FloatBits == MantissaBits + 1
\* the bits of a digest as the first version reads it
DigestBitsV1 == FloatBits + 1
DigestSizeV1 == Pow(2, DigestBitsV1)
DigestsV1 == 0 .. (DigestSizeV1 - 1)

\* the number of bits of n
RECURSIVE BitLength(_)
BitLength(n) == IF n = 0 THEN 0 ELSE 1 + BitLength(n \div 2)

\* parseInt(h, 16) for the digest d: the double nearest to d, the one with
\* an even significand on a tie
ParseInt(d) ==
  LET e == BitLength(d) - FloatBits
  IN IF e <= 0 THEN d
     ELSE LET q == d \div Pow(2, e)
              rest == d % Pow(2, e)
              half == Pow(2, e - 1)
          IN IF rest > half \/ (rest = half /\ q % 2 = 1)
             THEN (q + 1) * Pow(2, e)
             ELSE q * Pow(2, e)

\* the constructor: clientSeed is a string or Undefined; nonce || 0
constructorV1(clientSeed, serverSeed, nonce) ==
  { LET s0 == [clientSeed |-> Undefined, serverSeed |-> ss,
               serverHash |-> Sha256(ss), nonce |-> nonce]
    IN IF ~Falsy(clientSeed) THEN setClientSeed(s0, clientSeed) ELSE s0
    : ss \in IF Falsy(serverSeed) THEN generateRandomHex ELSE {serverSeed} }

\* s = this.clientSeed + '-' + this.nonce
MessageV1(s) == s.clientSeed \o <<"-">> \o NumberToString(s.nonce)

KeyV1(s) == <<s.serverSeed, MessageV1(s)>>

\* randomLong: generates the client seed when there is none, then returns
\* the digest of the message as a double
randomLongV1(s, h) ==
  UNION {
    LET k == KeyV1(s1)
    IN IF k \in DOMAIN h
       THEN { Returned(s1, h, ParseInt(h[k])) }
       ELSE { Returned(s1, (k :> d) @@ h, ParseInt(d)) : d \in DigestsV1 }
    : s1 \in IF Falsy(s.clientSeed)
             THEN { setClientSeed(s, g) : g \in generateRandomHex }
             ELSE { s } }

\* random: randomLong() / 2^256, returned as the numerator over
\* DigestSizeV1; it is 1.0 when the digest rounds up to 2^256
randomV1(s, h) == randomLongV1(s, h)

\* Math.floor(r * 2 ** 32) for r = x / DigestSizeV1
DrawV1(x) == (x * WordSize) \div DigestSizeV1

\* the do-while loop of randomInt entered with its counter c
RECURSIVE randomIntLoopV1(_, _, _, _, _)
randomIntLoopV1(s, h, min, max, c) ==
  LET range == Range(min, max)
      s1 == IF c # 0 THEN [s EXCEPT !.nonce = @ + 1] ELSE s
  IN IF s1.nonce > MaxCounter THEN {}
     ELSE UNION {
       LET i == DrawV1(r.ret[1])
       IN IF i >= MaxRange(range)
          THEN randomIntLoopV1(r.s, r.h, min, max, c + 1)
          ELSE { Returned(r.s, r.h, (i % range) + min) }
       : r \in randomV1(s1, h) }

\* no digest ends the loop of randomInt
AlwaysRejectsV1(min, max) ==
  \A d \in DigestsV1 : DrawV1(ParseInt(d)) >= MaxRange(Range(min, max))

\* randomInt, for min <= max (it makes no check of its bounds)
randomIntV1(s, h, min, max) ==
  IF AlwaysRejectsV1(min, max)
  THEN { Diverges(r.s, r.h) : r \in randomV1(s, h) }
  ELSE randomIntLoopV1(s, h, min, max, 0)

nextIntV1(s, h, min, max) ==
  randomIntV1([s EXCEPT !.nonce = @ + 1], h, min, max)

\* randomIntRange: size is cut down to max when unique; the loop runs until
\* r.u (r.l when not unique) holds size values, which it never does when
\* size is above the number of values there are
RECURSIVE randomIntRangeLoopV1(_, _, _, _, _, _, _, _)
randomIntRangeLoopV1(s, h, min, max, size, unique, l, u) ==
  IF Len(IF unique THEN u ELSE l) >= size
  THEN { Returned(s, h, IF unique THEN [l |-> l, u |-> u] ELSE [l |-> l]) }
  ELSE UNION {
    IF o.status # "returned" THEN { o }
    ELSE randomIntRangeLoopV1(o.s, o.h, min, max, size, unique,
           Append(l, o.ret[1]),
           IF unique /\ o.ret[1] \notin Elems(u) THEN Append(u, o.ret[1]) ELSE u)
    : o \in nextIntV1(s, h, min, max) }

randomIntRangeV1(s, h, min, max, size, unique) ==
  LET size1 == IF unique /\ size > max THEN max ELSE size
  IN IF unique /\ size1 > Range(min, max) THEN { Diverges(s, h) }
     ELSE randomIntRangeLoopV1(s, h, min, max, size1, unique, << >>, << >>)

\* NaN, which no number equals: the results of crash are positive
NaN == -1

\* crash: X = (100 - houseEdge) / (1 - random()), then
\* min(max(1, floor(X) / 100), max); houseEdge and the result are in
\* hundredths.  1 - random() is 0 when random() is 1.0: X is then Infinity,
\* or NaN for a house edge of 100.
crashV1(s, h, houseEdge, max) ==
  { LET x == r.ret[1]
    IN IF x = DigestSizeV1
       THEN Returned(r.s, r.h,
              IF houseEdge = 10000 THEN NaN
              ELSE IF houseEdge < 10000 THEN max * 100
              ELSE Min(100, max * 100))
       ELSE Returned(r.s, r.h,
              Min(Max(100, ((10000 - houseEdge) * DigestSizeV1)
                             \div (100 * (DigestSizeV1 - x))),
                  max * 100))
    : r \in randomV1(s, h) }

\* what an array has where it has no element
Hole == "undefined"

\* arr[i] and arr[i] = v for i counted from 0: reading past the end gives
\* undefined, writing at the end lengthens the array
At(arr, i) == IF i < Len(arr) THEN arr[i + 1] ELSE Hole
Put(arr, i, v) ==
  [k \in 1 .. Max(Len(arr), i + 1) |->
     IF k = i + 1 THEN v ELSE IF k <= Len(arr) THEN arr[k] ELSE Hole]

\* while (m): i = nextInt(0, m--); t = arr[m]; arr[m] = arr[i]; arr[i] = t.
\* m is the value before the decrement: the draw is from [0, m]
RECURSIVE shuffleLoopV1(_, _, _, _)
shuffleLoopV1(s, h, arr, m) ==
  IF m = 0 THEN { Returned(s, h, arr) }
  ELSE UNION {
    IF o.status # "returned" THEN { o }
    ELSE LET i == o.ret[1]
             t == At(arr, m - 1)
         IN shuffleLoopV1(o.s, o.h, Put(Put(arr, m - 1, At(arr, i)), i, t), m - 1)
    : o \in nextIntV1(s, h, 0, m) }

shuffleV1(s, h, arr) == shuffleLoopV1(s, h, arr, Len(arr))

----------------------------------------------------------------------------
(* The arguments the model calls the methods with *)

\* constructor calls: no client seed; a list of client seeds and no server
\* seed; index mode
CtorArgs ==
  { [clientSeed |-> Str(Undefined), serverSeed |-> <<"s">>, nonce |-> 0,
     index |-> Null],
    [clientSeed |-> Arr(<< <<"a">>, <<"b">> >>), serverSeed |-> Undefined,
     nonce |-> 1, index |-> Null],
    [clientSeed |-> Str(<<"a">>), serverSeed |-> <<"s">>, nonce |-> 0,
     index |-> Num(0)] }
SeedArgs == { EmptyString, <<"a">> }
\* bounds of randomInt: ranges 1, 2, 3, WordSize and WordSize + 1, and
\* max < min
IntArgs ==
  { <<0, 0>>, <<1, 2>>, <<0, 2>>, <<0, WordSize - 1>>, <<0, WordSize>>, <<1, 0>> }
FloatArgs == { <<0, 1, 0>>, <<0, 1, 1>>, <<1, 3, 1>>, <<1, 0, 1>> }
RangeArgs ==
  { <<0, 1, 2, FALSE>>, <<0, 0, 2, TRUE>>, <<0, 0, -1, FALSE>>, <<1, 0, 2, TRUE>> }
WeightArgs ==
  { << >>,
    << [key |-> "a", weight |-> 1, finite |-> TRUE],
       [key |-> "b", weight |-> 3, finite |-> TRUE] >>,
    << [key |-> "a", weight |-> -1, finite |-> TRUE],
       [key |-> "b", weight |-> 0, finite |-> TRUE] >>,
    << [key |-> "a", weight |-> 0, finite |-> TRUE],
       [key |-> "b", weight |-> 1, finite |-> FALSE],
       [key |-> "c", weight |-> 1, finite |-> TRUE] >> }
ArrayArgs == { << >>, <<"x">>, <<"x", "y">> }
\* house edge (in hundredths: 0, 0.5, 1, 100, 200) and cap
CrashArgs ==
  { <<0, 3>>, <<50, 3>>, <<100, 3>>, <<10000, 3>>, <<20000, 3>>, <<100, 1>> }
HighArgs == { <<50, 3, 1>>, <<100, 3, 0>>, <<100, 1, 1>> }
PumpArgs ==
  { [size |-> 1],
    [size |-> 2, difficulty |-> [name |-> "easy"]],
    [size |-> 2, difficulty |-> [name |-> "hard"]],
    [size |-> 2, difficulty |-> [num |-> 1], nonce |-> 0],
    [size |-> 2, difficulty |-> [num |-> 1], index |-> Num(1)],
    [size |-> 2, difficulty |-> [num |-> 1], index |-> Null],
    [size |-> 2, difficulty |-> [num |-> 0], nonce |-> 2] }

----------------------------------------------------------------------------
(* The state machine *)

\* the methods by name
Outcomes(op, a, s, h) ==
  CASE op = "setClientSeed" -> { ReturnedUndefined(setClientSeed(s, a[1]), h) }
    [] op = "generateRandomHex" -> { Returned(s, h, g) : g \in generateRandomHex }
    [] op = "generateServerSeedHash" -> { Returned(s, h, generateServerSeedHash(s)) }
    [] op = "nextIndex" -> { Returned(nextIndex(s), h, Counter(nextIndex(s))) }
    [] op = "getBytes" -> getBytes(s, h)
    [] op = "randomLong" -> randomLong(s, h)
    [] op = "random" -> random(s, h)
    [] op = "randomInt" -> randomInt(s, h, a[1], a[2])
    [] op = "randomFloat" -> randomFloat(s, h, a[1], a[2], a[3])
    [] op = "next" -> next(s, h)
    [] op = "nextFloat" -> nextFloat(s, h, a[1], a[2], a[3])
    [] op = "nextInt" -> nextInt(s, h, a[1], a[2])
    [] op = "randomIntRange" -> randomIntRange(s, h, a[1], a[2], a[3], a[4])
    [] op = "weightedRandom" -> weightedRandom(s, h, a[1])
    [] op = "shuffle" -> shuffle(s, h, a[1])
    [] op = "crash" -> crash(s, h, a[1], a[2])
    [] op = "pump" -> pump(s, h, a[1])
    [] op = "highMultiplier" -> highMultiplier(s, h, a[1], a[2], a[3])

NoCall == [op |-> "none"]
\* no instance of the first version has been built; no game is held
NoInstance == [nonce |-> -1]
NoGame == [size |-> 0]

Init ==
  \E c \in CtorArgs :
    /\ ctor = c
    /\ pfn \in constructor(c.clientSeed, c.serverSeed, c.nonce, c.index)
    /\ hmac = << >>
    /\ last = NoCall
    /\ prev = NoCall
    /\ pfnV1 = NoInstance
    /\ game = NoGame

\* the counters stay within the model's bound
Within(s) ==
  /\ s.nonce <= MaxCounter
  /\ IF s.index = Null THEN TRUE ELSE s.index[1] <= MaxCounter

\* the record of a call: the instance it was made on (pre), what it gave,
\* and the digests it knew (read)
Call(op, args, o) ==
  [op |-> op, args |-> args, pre |-> pfn, status |-> o.status, ret |-> o.ret,
   error |-> o.error, read |-> o.h]

\* the outcomes of a call on pfn that keep the counters within the bound
Callable(op, args) == { o \in Outcomes(op, args, pfn, hmac) : Within(o.s) }

\* a call of a method on pfn with one of its outcomes: the digests of
\* positions the instance has left are forgotten
Apply(op, args) ==
  \E o \in Callable(op, args) :
    /\ pfn' = o.s
    /\ hmac' = Keep(o.h, {o.s})
    /\ last' = Call(op, args, o)
    /\ UNCHANGED <<ctor, prev, pfnV1, game>>

\* the caller holds no result
Idle == last = NoCall

SetClientSeed ==
  /\ Idle
  /\ \E seed \in SeedArgs : Apply("setClientSeed", <<seed>>)

GenerateRandomHex ==
  /\ Idle
  /\ Apply("generateRandomHex", << >>)

GenerateServerSeedHash ==
  /\ Idle
  /\ Apply("generateServerSeedHash", << >>)

NextIndex ==
  /\ Idle
  /\ Apply("nextIndex", << >>)

GetBytes ==
  /\ Idle
  /\ Apply("getBytes", << >>)

RandomLong ==
  /\ Idle
  /\ Apply("randomLong", << >>)

Random ==
  /\ Idle
  /\ Apply("random", << >>)

RandomInt ==
  /\ Idle
  /\ \E a \in IntArgs : Apply("randomInt", a)

RandomFloat ==
  /\ Idle
  /\ \E a \in FloatArgs : Apply("randomFloat", a)

NextCall ==
  /\ Idle
  /\ Apply("next", << >>)

NextFloat ==
  /\ Idle
  /\ \E a \in FloatArgs : Apply("nextFloat", a)

NextInt ==
  /\ Idle
  /\ \E a \in IntArgs : Apply("nextInt", a)

RandomIntRange ==
  /\ Idle
  /\ \E a \in RangeArgs : Apply("randomIntRange", a)

WeightedRandom ==
  /\ Idle
  /\ \E spec \in WeightArgs : Apply("weightedRandom", <<spec>>)

Shuffle ==
  /\ Idle
  /\ \E arr \in ArrayArgs : Apply("shuffle", <<arr>>)

Crash ==
  /\ Idle
  /\ \E a \in CrashArgs : Apply("crash", a)

Pump ==
  /\ Idle
  /\ \E opts \in PumpArgs : Apply("pump", <<opts>>)

HighMultiplier ==
  /\ Idle
  /\ \E a \in HighArgs : Apply("highMultiplier", a)

\* the operations that move no counter unless they reject a draw
RepeatOps ==
  { "random", "randomLong", "randomFloat", "crash", "weightedRandom",
    "highMultiplier", "getBytes", "randomInt" }

\* the caller makes the call it just made once more, with nothing in between
Repeat ==
  /\ ~Idle
  /\ prev = NoCall
  /\ last.op \in RepeatOps
  /\ last.status # "diverges"
  /\ \E o \in Callable(last.op, last.args) :
       /\ pfn' = o.s
       /\ hmac' = Keep(o.h, {o.s})
       /\ last' = Call(last.op, last.args, o)
  /\ prev' = last
  /\ UNCHANGED <<ctor, pfnV1, game>>

\* the caller takes the result; a call that never returns has none
Return ==
  /\ ~Idle
  /\ last.status # "diverges"
  /\ last' = NoCall
  /\ prev' = NoCall
  /\ UNCHANGED <<pfn, hmac, ctor, pfnV1, game>>

Next ==
  \/ SetClientSeed
  \/ GenerateRandomHex
  \/ GenerateServerSeedHash
  \/ NextIndex
  \/ GetBytes
  \/ RandomLong
  \/ Random
  \/ RandomInt
  \/ RandomFloat
  \/ NextCall
  \/ NextFloat
  \/ NextInt
  \/ RandomIntRange
  \/ WeightedRandom
  \/ Shuffle
  \/ Crash
  \/ Pump
  \/ HighMultiplier
  \/ Repeat
  \/ Return

Spec == Init /\ [][Next]_vars

----------------------------------------------------------------------------
(* random() on digests wider than its mantissa: the digests of the         *)
(* instance carry only the bits random() keeps, so the mantissa is also    *)
(* formed from digests with bits below it.                                 *)

WideDigestBits == MantissaBits + 4
WideDigests == 0 .. (Pow(2, WideDigestBits) - 1)

\* lines 96-104 of random() applied to a digest of WideDigestBits bits
MantissaWide ==
  /\ Idle
  /\ \E d \in WideDigests :
       last' = [op |-> "mantissa", args |-> <<d>>, pre |-> pfn,
                status |-> "returned", ret |-> <<MantissaOf(d, WideDigestBits)>>,
                error |-> "", read |-> hmac]
  /\ UNCHANGED <<pfn, hmac, ctor, prev, pfnV1, game>>

NextWide ==
  \/ Random
  \/ MantissaWide
  \/ Return

WideSpec == Init /\ [][NextWide]_vars

----------------------------------------------------------------------------
(* Calls that draw three times: an instance built at nonce -1 has three     *)
(* positions to advance over before the bound on the counters.             *)

DeepCtorArgs ==
  { [clientSeed |-> Str(<<"a">>), serverSeed |-> <<"s">>, nonce |-> -1,
     index |-> Null] }
\* not unique; unique with a value drawn twice; size above the domain;
\* negative size; a range above the word
DeepRangeArgs ==
  { <<0, 1, 2, FALSE>>, <<0, 1, 2, TRUE>>, <<0, 0, 2, TRUE>>, <<0, 0, -1, FALSE>>,
    <<0, WordSize, 1, FALSE>> }
\* arrays of length 0, 1, 2 and 3, one with an element twice
DeepArrayArgs == { << >>, <<"x">>, <<"x", "y", "z">>, <<"x", "x">> }
\* pump options: sizes 1, 2, 2.5, 3 and 4; difficulties by default, by known
\* and unknown name, and by number (0, 1.5, 2, 4); a nonce to start from
DeepPumpArgs ==
  { [size |-> 1],
    [size |-> 2],
    [size |-> 3],
    [size |-> 2, sizeHalf |-> TRUE, difficulty |-> [num |-> 1]],
    [size |-> 2, difficulty |-> [name |-> "easy"]],
    [size |-> 4, difficulty |-> [name |-> "hard"]],
    [size |-> 3, difficulty |-> [name |-> "insane"]],
    [size |-> 3, difficulty |-> [num |-> 0]],
    [size |-> 3, difficulty |-> [num |-> 1, half |-> TRUE]],
    [size |-> 3, difficulty |-> [num |-> 2]],
    [size |-> 3, difficulty |-> [num |-> 4]],
    [size |-> 3, difficulty |-> [num |-> 1], nonce |-> 0] }

InitDeep ==
  \E c \in DeepCtorArgs :
    /\ ctor = c
    /\ pfn \in constructor(c.clientSeed, c.serverSeed, c.nonce, c.index)
    /\ hmac = << >>
    /\ last = NoCall
    /\ prev = NoCall
    /\ pfnV1 = NoInstance
    /\ game = NoGame

RandomIntRangeDeep ==
  /\ Idle
  /\ \E a \in DeepRangeArgs : Apply("randomIntRange", a)

ShuffleDeep ==
  /\ Idle
  /\ \E arr \in DeepArrayArgs : Apply("shuffle", <<arr>>)

PumpDeep ==
  /\ Idle
  /\ \E opts \in DeepPumpArgs : Apply("pump", <<opts>>)

NextDeep ==
  \/ RandomIntRangeDeep
  \/ ShuffleDeep
  \/ PumpDeep
  \/ Return

DeepSpec == InitDeep /\ [][NextDeep]_vars

----------------------------------------------------------------------------
(* The closures of a game object, called on the games pump can return.     *)
(* The draw of nextInt has WordBits bits here, so pump itself returns only *)
(* games of a size up to WordSize; the closures read nothing but the       *)
(* game's size, burstPoints, popPoint and edge, and are called on every    *)
(* game of a size up to MaxSize with a pop point the selection can give.   *)

\* largest size of a game
MaxSize == 17
\* edge, in units of 1/10000: none, and the default 0.02
Edges == { 0, 200 }

Games ==
  { [size |-> n, burstPoints |-> b, popPoint |-> p, edge |-> e] :
      n \in 2 .. MaxSize, b \in 1 .. MaxSize, p \in 1 .. MaxSize, e \in Edges }

\* the games a valid call of pump returns: 1 <= burstPoints <= size and
\* popPoint - 1 the smallest of burstPoints distinct positions
GamesOfPump ==
  { g \in Games : g.burstPoints <= g.size
                  /\ g.popPoint <= g.size - g.burstPoints + 1 }

\* the arguments the closures are called with
Rounds == { [n |-> n, half |-> hf] : n \in (-1) .. (MaxSize + 1), hf \in BOOLEAN }

InitGame ==
  \E c \in DeepCtorArgs :
    /\ ctor = c
    /\ pfn \in constructor(c.clientSeed, c.serverSeed, c.nonce, c.index)
    /\ hmac = << >>
    /\ last = NoCall
    /\ prev = NoCall
    /\ pfnV1 = NoInstance
    /\ game \in GamesOfPump

\* a call of a closure of the game held, with its result
Closure(op, k, o) ==
  /\ last' = [op |-> op, args |-> <<k>>, pre |-> pfn, status |-> o.status,
              ret |-> o.ret, error |-> o.error, read |-> hmac]
  /\ UNCHANGED <<pfn, hmac, ctor, prev, pfnV1, game>>

SurvivalAt ==
  /\ Idle
  /\ \E k \in Rounds : Closure("survivalAt", k, Gave(survivalAt(game, k)))

PayoutMultiplierAt ==
  /\ Idle
  /\ \E k \in Rounds : Closure("payoutMultiplierAt", k, payoutMultiplierAt(game, k))

NextGame ==
  \/ SurvivalAt
  \/ PayoutMultiplierAt
  \/ Return

GameSpec == InitGame /\ [][NextGame]_vars

----------------------------------------------------------------------------
(* The two versions side by side: an instance of each, built from the same *)
(* client seed, server seed and nonce.  hmac holds the digests as the      *)
(* first version reads them; the second version reads their first          *)
(* DigestBits bits.                                                        *)

CompatCtorArgs ==
  { [clientSeed |-> Str(<<"a">>), serverSeed |-> <<"s">>, nonce |-> 0,
     index |-> Null] }
\* the bounds of IntArgs with min <= max
CompatIntArgs == { a \in IntArgs : a[1] <= a[2] }
\* unique over [0, 1], [1, 2], [2, 3] and [0, 0] with a size at or above the
\* number of values; not unique
RangeArgsV1 ==
  { <<0, 1, 2, TRUE>>, <<1, 2, 2, TRUE>>, <<1, 2, 1, TRUE>>, <<2, 3, 3, TRUE>>,
    <<0, 0, 1, TRUE>>, <<0, 1, 2, FALSE>> }

\* the digests of h as the second version reads them
Narrow(h) ==
  [k \in DOMAIN h |-> h[k] \div Pow(2, DigestBitsV1 - DigestBits)]

\* h restricted to the messages the two instances point at
KeepBoth(h, s1, s2) ==
  LET keys == { KeyV1(s1), Key(s2) } \cap DOMAIN h
  IN [k \in keys |-> h[k]]

\* the methods of the first version by name
OutcomesV1(op, a, s, h) ==
  CASE op = "randomInt" -> randomIntV1(s, h, a[1], a[2])
    [] op = "nextInt" -> nextIntV1(s, h, a[1], a[2])
    [] op = "crash" -> crashV1(s, h, a[1], a[2])
    [] op = "randomIntRange" -> randomIntRangeV1(s, h, a[1], a[2], a[3], a[4])
    [] op = "shuffle" -> shuffleV1(s, h, a[1])

InitCompat ==
  \E c \in CompatCtorArgs :
    /\ ctor = c
    /\ pfn \in constructor(c.clientSeed, c.serverSeed, c.nonce, c.index)
    /\ pfnV1 \in constructorV1(c.clientSeed.v, c.serverSeed, c.nonce)
    /\ hmac = << >>
    /\ last = NoCall
    /\ prev = NoCall
    /\ game = NoGame

\* the two instances are at the same position of the same stream
Aligned ==
  /\ pfn.index = Null
  /\ pfnV1.clientSeed = pfn.clientSeed
  /\ pfnV1.serverSeed = pfn.serverSeed
  /\ pfnV1.nonce = pfn.nonce

\* the same call made on both instances: last holds the result of the
\* second version and, in v1, that of the first
Both(op, args) ==
  \E o1 \in OutcomesV1(op, args, pfnV1, hmac) :
    \E o2 \in Outcomes(op, args, pfn, Narrow(o1.h)) :
      /\ o1.s.nonce <= MaxCounter
      /\ Within(o2.s)
      /\ DOMAIN o2.h = DOMAIN o1.h
      /\ pfnV1' = o1.s
      /\ pfn' = o2.s
      /\ hmac' = KeepBoth(o1.h, o1.s, o2.s)
      /\ last' = [op |-> op, args |-> args, pre |-> pfn, status |-> o2.status,
                  ret |-> o2.ret, error |-> o2.error, read |-> o1.h,
                  v1 |-> [pre |-> pfnV1, status |-> o1.status, ret |-> o1.ret]]
      /\ UNCHANGED <<ctor, prev, game>>

\* a call on the instance of the first version alone
ApplyV1(op, args) ==
  \E o \in OutcomesV1(op, args, pfnV1, hmac) :
    /\ o.s.nonce <= MaxCounter
    /\ pfnV1' = o.s
    /\ hmac' = KeepBoth(o.h, o.s, pfn)
    /\ last' = [op |-> op, args |-> args, pre |-> pfnV1, status |-> o.status,
                ret |-> o.ret, error |-> o.error, read |-> o.h]
    /\ UNCHANGED <<pfn, ctor, prev, game>>

RandomIntBoth ==
  /\ Idle
  /\ Aligned
  /\ \E a \in CompatIntArgs : Both("randomInt", a)

NextIntBoth ==
  /\ Idle
  /\ Aligned
  /\ \E a \in CompatIntArgs : Both("nextInt", a)

CrashBoth ==
  /\ Idle
  /\ Aligned
  /\ \E a \in CrashArgs : Both("crash", a)

RandomIntRangeV1 ==
  /\ Idle
  /\ \E a \in RangeArgsV1 : ApplyV1("randomIntRange", a)

ShuffleV1 ==
  /\ Idle
  /\ \E arr \in ArrayArgs : ApplyV1("shuffle", <<arr>>)

NextCompat ==
  \/ RandomIntBoth
  \/ NextIntBoth
  \/ CrashBoth
  \/ RandomIntRangeV1
  \/ ShuffleV1
  \/ Return

CompatSpec == InitCompat /\ [][NextCompat]_vars

\* ---------------------------------------------------------------------
\* Properties
\* ---------------------------------------------------------------------

\* the caller holds the result of a call
Called == last # NoCall

\* the operations that read the current position without moving it
PeekOps ==
  { "random", "randomLong", "randomFloat", "crash", "weightedRandom",
    "highMultiplier" }

\* the instance s with its active counter at position p
AtCounter(s, p) ==
  IF s.index = Null THEN [s EXCEPT !.nonce = p] ELSE [s EXCEPT !.index = Num(p)]

\* the last call read position p, and its 32-bit draw there was d
DrewAt(p, d) ==
  LET k == Key(AtCounter(pfn, p))
  IN /\ k \in DOMAIN last.read
     /\ Draw(Mantissa(last.read[k])) = d

\* the last call's draw at position p was rejected / accepted for its range
RejectedAt(p) ==
  \E d \in 0 .. (WordSize - 1) :
    /\ DrewAt(p, d)
    /\ d >= MaxRange(Range(last.args[1], last.args[2]))
AcceptedAt(p) ==
  \E d \in 0 .. (WordSize - 1) :
    /\ DrewAt(p, d)
    /\ d < MaxRange(Range(last.args[1], last.args[2]))
    /\ last.ret = <<(d % Range(last.args[1], last.args[2])) + last.args[1]>>

\* the counter mode and the inactive counter are as they were before the call
SameMode ==
  IF last.pre.index = Null THEN pfn.index = Null
  ELSE pfn.index # Null /\ pfn.nonce = last.pre.nonce

\* C1: random, randomLong, randomFloat, crash, weightedRandom and
\* highMultiplier leave nonce and index exactly as they were before the call,
\* whether they return or throw.
C1_PeeksLeaveCounters ==
  (Called /\ last.op \in PeekOps) =>
    (pfn.nonce = last.pre.nonce /\ pfn.index = last.pre.index)

\* highMultiplier has returned on an instance in index mode
C1_Witness ==
  /\ Called
  /\ last.op = "highMultiplier"
  /\ last.status = "returned"
  /\ last.pre.index # Null
  /\ pfn.index = last.pre.index

\* C2 (as stated): no operation lowers nonce or index or changes which of them
\* is active; the active counter only ever rises.
C2_CountersOnlyRise ==
  Called =>
    /\ pfn.nonce >= last.pre.nonce
    /\ (last.pre.index = Null) <=> (pfn.index = Null)
    /\ IF last.pre.index # Null /\ pfn.index # Null
       THEN pfn.index[1] >= last.pre.index[1]
       ELSE TRUE

\* C3 (as stated): next, nextFloat and nextInt move the active counter by
\* exactly 1 per returning call.
C3_NextAdvancesByOne ==
  (Called /\ last.op \in {"next", "nextFloat", "nextInt"}
     /\ last.status = "returned") =>
    (SameMode /\ Counter(pfn) = Counter(last.pre) + 1)

\* C3 (amended): next and nextFloat move the active counter by exactly 1;
\* nextInt moves it by 1 plus the number of draws it rejected: every position
\* from the first after entry up to the one before the final one was read and
\* rejected, and the final one was read and accepted.
C3_NextAdvances ==
  (Called /\ last.op \in {"next", "nextFloat", "nextInt"}
     /\ last.status = "returned") =>
    /\ SameMode
    /\ IF last.op = "nextInt"
       THEN /\ Counter(pfn) >= Counter(last.pre) + 1
            /\ \A p \in (Counter(last.pre) + 1) .. (Counter(pfn) - 1) :
                 RejectedAt(p)
            /\ AcceptedAt(Counter(pfn))
       ELSE Counter(pfn) = Counter(last.pre) + 1

\* a nextInt that rejected a draw and returned two positions further on
C3_Witness ==
  /\ Called
  /\ last.op = "nextInt"
  /\ last.status = "returned"
  /\ Counter(pfn) = Counter(last.pre) + 2
  /\ RejectedAt(Counter(last.pre) + 1)


\* C4 (as stated): for every min <= max, randomInt(min, max) terminates: its
\* limit floor(2^32 / range) * range is positive, so some draw is accepted.
C4_RandomIntTerminates ==
  (Called /\ last.op = "randomInt" /\ last.args[1] <= last.args[2]) =>
    /\ MaxRange(Range(last.args[1], last.args[2])) > 0
    /\ last.status = "returned"

\* C5: for every min <= max, a value v returned by randomInt(min, max) or by
\* nextInt(min, max) satisfies min <= v <= max, whatever the digests are.
C5_RandomIntInRange ==
  (Called /\ last.op \in {"randomInt", "nextInt"} /\ last.status = "returned") =>
    /\ last.args[1] <= last.ret[1]
    /\ last.ret[1] <= last.args[2]

\* randomInt over a range of three values returned its largest one after
\* rejecting a draw
C5_Witness ==
  /\ Called
  /\ last.op = "randomInt"
  /\ last.args = <<0, 2>>
  /\ last.status = "returned"
  /\ last.ret = <<2>>
  /\ Counter(pfn) > Counter(last.pre)

\* C6: randomInt has no modulo bias.  The draw is the top 32 bits of the
\* digest, so it takes every value of the 32-bit word, each for the same
\* number of digests; the value returned is (x mod range) + min of the accepted
\* draw x < limit; and every value of [min, max] has exactly limit / range
\* preimages among the draws below limit.
C6_NoModuloBias ==
  (Called /\ last.op = "randomInt" /\ last.status = "returned") =>
    LET min == last.args[1]
        max == last.args[2]
        range == Range(min, max)
        limit == MaxRange(range)
    IN /\ \A d \in Digests :
            Draw(Mantissa(d)) = d \div Pow(2, DigestBits - WordBits)
       /\ \A x \in 0 .. (WordSize - 1) :
            Cardinality({ d \in Digests : Draw(Mantissa(d)) = x })
              = Pow(2, DigestBits - WordBits)
       /\ AcceptedAt(Counter(pfn))
       /\ limit \div range >= 1
       /\ \A v \in min .. max :
            Cardinality({ x \in 0 .. (limit - 1) : (x % range) + min = v })
              = limit \div range

\* randomInt returned over a range that does not divide the word: draws at
\* and above the limit exist and are rejected
C6_Witness ==
  /\ Called
  /\ last.op = "randomInt"
  /\ last.status = "returned"
  /\ MaxRange(Range(last.args[1], last.args[2])) < WordSize
  /\ Range(last.args[1], last.args[2]) > 1

\* C7: randomInt(min, max) moves the counter only on rejection.  On return
\* the active counter is its value on entry plus the number of rejected draws:
\* every position from the entry position up to the one before the final one
\* was read and rejected, the final one was read and accepted, and the
\* inactive counter and the mode are unchanged.  With the first draw accepted,
\* nonce and index are as on entry.
C7_RandomIntAdvancesOnRejection ==
  (Called /\ last.op = "randomInt" /\ last.status = "returned") =>
    /\ SameMode
    /\ Counter(pfn) >= Counter(last.pre)
    /\ \A p \in Counter(last.pre) .. (Counter(pfn) - 1) : RejectedAt(p)
    /\ AcceptedAt(Counter(pfn))
    /\ AcceptedAt(Counter(last.pre)) =>
         (pfn.nonce = last.pre.nonce /\ pfn.index = last.pre.index)

\* a randomInt whose first draw was accepted, made twice
C7_Witness ==
  /\ Called
  /\ prev # NoCall
  /\ last.op = "randomInt"
  /\ last.status = "returned"
  /\ AcceptedAt(Counter(last.pre))
  /\ prev.pre.nonce = pfn.nonce
  /\ prev.pre.index = pfn.index

\* C8: digest purity.  The second of two consecutive calls of the same peek
\* operation with the same arguments (randomInt counted when the first call
\* rejected nothing) returns what the first returned, also when
\* the client seed was generated by the first call.
C8_DigestPurity ==
  (/\ prev # NoCall
   /\ prev.op \in PeekOps \cup {"randomInt"}
   /\ prev.op = "randomInt" => Counter(last.pre) = Counter(prev.pre)) =>
    /\ last.status = prev.status
    /\ last.ret = prev.ret
    /\ last.error = prev.error

\* random() made twice on an instance built without a client seed
C8_Witness ==
  /\ prev # NoCall
  /\ prev.op = "random"
  /\ Falsy(prev.pre.clientSeed)
  /\ last.status = "returned"
  /\ last.ret = prev.ret

\* a second instance in the state the last call was made in, given the same
\* call and the same digests, ends in the state of the first and gives the
\* same result
TwinAgrees ==
  \A t \in Outcomes(last.op, last.args, last.pre, last.read) :
    /\ t.s = pfn
    /\ t.status = last.status
    /\ t.ret = last.ret
    /\ t.error = last.error

\* a second instance built from the constructor's arguments has the server
\* seed of the first
TwinBuilt ==
  \A t \in constructor(ctor.clientSeed, ctor.serverSeed, ctor.nonce, ctor.index) :
    t.serverSeed = pfn.serverSeed

C10_ModeFixed == (pfn.index = Null) <=> (ctor.index = Null)


\* C11: nextIndex increments exactly the active counter by one (index in
\* index mode, nonce in nonce mode), returns the new value of that counter,
\* and leaves the other counter, clientSeed, serverSeed and serverHash as
\* they were.
C11_NextIndexIncrementsActive ==
  (Called /\ last.op = "nextIndex") =>
    /\ last.status = "returned"
    /\ IF last.pre.index = Null
       THEN /\ pfn.index = Null
            /\ pfn.nonce = last.pre.nonce + 1
            /\ last.ret = <<pfn.nonce>>
       ELSE /\ pfn.index = <<last.pre.index[1] + 1>>
            /\ pfn.nonce = last.pre.nonce
            /\ last.ret = <<pfn.index[1]>>
    /\ pfn.clientSeed = last.pre.clientSeed
    /\ pfn.serverSeed = last.pre.serverSeed
    /\ pfn.serverHash = last.pre.serverHash

\* nextIndex has returned 1 on an instance built in index mode at index 0
C11_Witness ==
  /\ Called
  /\ last.op = "nextIndex"
  /\ last.pre.index = <<0>>
  /\ last.ret = <<1>>

\* the list seeds joined with '|', for lists of up to two seeds
JoinedWithBar(seeds) ==
  IF Len(seeds) = 0 THEN << >>
  ELSE IF Len(seeds) = 1 THEN seeds[1]
  ELSE seeds[1] \o <<"|">> \o seeds[2]

\* C12: the HMAC message, keyed by serverSeed, is clientSeed-nonce in nonce
\* mode and clientSeed-nonce-index in index mode, and nothing else: a call of
\* random, randomLong or getBytes reads the digest of exactly that message
\* under that key.  A client seed given to the constructor as a list becomes
\* the list joined with '|' in the given order.
C12_MessageFormat ==
  /\ (Called /\ last.op \in {"random", "randomLong", "getBytes"}) =>
       DOMAIN last.read =
         { << pfn.serverSeed,
              pfn.clientSeed \o <<"-">> \o NumberToString(pfn.nonce)
                \o (IF pfn.index = Null THEN << >>
                    ELSE <<"-">> \o NumberToString(pfn.index[1])) >> }
  /\ ctor.clientSeed.array =>
       \A t \in constructor(ctor.clientSeed, ctor.serverSeed, ctor.nonce, ctor.index) :
         t.clientSeed = JoinedWithBar(ctor.clientSeed.v)

\* random() has read the digest of a message with an index part
C12_Witness ==
  /\ Called
  /\ last.op = "random"
  /\ pfn.index = <<1>>
  /\ \E k \in DOMAIN last.read : k[2] = <<"a", "-", "0", "-", "1">>

\* C13: in every reachable state serverHash is the SHA-256 of serverSeed; the
\* constructor sets it so, no call changes serverSeed or serverHash, and
\* generateServerSeedHash returns it.
C13_Commitment ==
  /\ pfn.serverHash = Sha256(pfn.serverSeed)
  /\ Called =>
       /\ pfn.serverSeed = last.pre.serverSeed
       /\ pfn.serverHash = last.pre.serverHash
  /\ (Called /\ last.op = "generateServerSeedHash") =>
       last.ret = <<Sha256(pfn.serverSeed)>>

\* generateServerSeedHash called on an instance whose server seed was
\* generated, after a call of pump
C13_Witness ==
  /\ Falsy(ctor.serverSeed)
  /\ Called
  /\ last.op = "generateServerSeedHash"
  /\ last.ret = <<pfn.serverHash>>
  /\ pfn.nonce # ctor.nonce

\* C14: randomInt, randomFloat and randomIntRange called with max < min throw
\* '<name>: max < min' and return no value.
C14_MaxBelowMinThrows ==
  (Called /\ last.op \in {"randomInt", "randomFloat", "randomIntRange"}
     /\ last.args[2] < last.args[1]) =>
    /\ last.status = "threw"
    /\ last.ret = << >>
    /\ last.error =
         (CASE last.op = "randomInt" -> "randomInt: max < min"
            [] last.op = "randomFloat" -> "randomFloat: max < min"
            [] last.op = "randomIntRange" -> "randomIntRange: max < min")

\* randomIntRange has thrown on max < min
C14_Witness ==
  /\ Called
  /\ last.op = "randomIntRange"
  /\ last.args[2] < last.args[1]
  /\ last.status = "threw"


\* the list has no value twice
Distinct(list) ==
  \A i, j \in 1 .. Len(list) : i # j => list[i] # list[j]

\* C15: for min <= max, the list l that randomIntRange(min, max, size, unique)
\* returns has all its elements in [min, max]; its length is max(size, 0)
\* when unique is false and min(max(size, 0), max - min + 1) when unique is
\* true, with no value twice in the unique case; a negative size gives the
\* empty list and no error.
C15_RandomIntRangeList ==
  (Called /\ last.op = "randomIntRange" /\ last.args[1] <= last.args[2]) =>
    LET min == last.args[1]
        max == last.args[2]
        size == last.args[3]
        unique == last.args[4]
        size0 == IF size > 0 THEN size ELSE 0
    IN /\ last.status # "threw"
       /\ size < 0 => (last.status = "returned" /\ last.ret = <<[l |-> << >>]>>)
       /\ last.status = "returned" =>
            LET l == last.ret[1].l
            IN /\ \A k \in 1 .. Len(l) : min <= l[k] /\ l[k] <= max
               /\ Len(l) = IF unique /\ size0 > max - min + 1
                           THEN max - min + 1 ELSE size0
               /\ unique => Distinct(l)

\* a unique list of two values returned after a value was drawn twice: three
\* positions were used for two elements
C15_Witness ==
  /\ Called
  /\ last.op = "randomIntRange"
  /\ last.args = <<0, 1, 2, TRUE>>
  /\ last.status = "returned"
  /\ Len(last.ret[1].l) = 2
  /\ pfn.nonce = last.pre.nonce + 3


\* how many times e is in arr
Occurrences(arr, e) == Cardinality({ k \in 1 .. Len(arr) : arr[k] = e })

\* C16: shuffle returns its array permuted: the result has the length of the
\* input and every element as many times as the input has it, whatever the
\* digests are.
C16_ShufflePermutes ==
  (Called /\ last.op = "shuffle" /\ last.status = "returned") =>
    LET arr == last.args[1]
        out == last.ret[1]
    IN /\ Len(out) = Len(arr)
       /\ \A e \in Elems(arr) \cup Elems(out) :
            Occurrences(out, e) = Occurrences(arr, e)

\* an array of three elements returned with none of them in its place
C16_Witness ==
  /\ Called
  /\ last.op = "shuffle"
  /\ last.status = "returned"
  /\ last.args[1] = <<"x", "y", "z">>
  /\ \A k \in 1 .. 3 : last.ret[1][k] # last.args[1][k]


\* entry k of spec has a finite weight > 0
Weighs(spec, k) == spec[k].finite /\ spec[k].weight > 0

\* the sum of the finite positive weights of the first k entries of spec
RECURSIVE WeightUpTo(_, _)
WeightUpTo(spec, k) ==
  IF k = 0 THEN 0
  ELSE WeightUpTo(spec, k - 1) + (IF Weighs(spec, k) THEN spec[k].weight ELSE 0)

\* C17: weightedRandom(spec) never throws.  It returns undefined exactly
\* when no entry of spec has a finite weight > 0.  Otherwise it returns the
\* key of an entry with a finite weight > 0: the first one, in enumeration
\* order, at which t = random() * total less the weights so far falls below 0
\* (or the last such entry, should none do so).
C17_WeightedRandomPick ==
  (Called /\ last.op = "weightedRandom") =>
    LET spec == last.args[1]
        total == WeightUpTo(spec, Len(spec))
        valid == { k \in 1 .. Len(spec) : Weighs(spec, k) }
    IN /\ last.status = "returned"
       /\ (last.ret = << >>) <=> (valid = {})
       /\ valid # {} =>
            /\ Key(pfn) \in DOMAIN last.read
            /\ LET m == Mantissa(last.read[Key(pfn)])
                   falls == { k \in valid :
                                m * total < WeightUpTo(spec, k) * MantissaSize }
                   pick == IF falls = {}
                           THEN CHOOSE k \in valid : \A j \in valid : j <= k
                           ELSE CHOOSE k \in falls : \A j \in falls : k <= j
               IN last.ret = <<spec[pick].key>>

\* the second key returned when t is exactly the first weight
C17_Witness ==
  /\ Called
  /\ last.op = "weightedRandom"
  /\ Len(last.args[1]) = 2
  /\ last.ret = <<"b">>
  /\ Key(pfn) \in DOMAIN last.read
  /\ Mantissa(last.read[Key(pfn)]) * 4 = 1 * MantissaSize


\* C18: crash(houseEdge, max) returns min(max(1, floor(100 * (1 - eps) /
\* (1 - r)) / 100), max), eps being houseEdge / 100 for houseEdge >= 1 and
\* houseEdge otherwise and r the value of random().  So for houseEdge >= 0 and
\* max >= 1 the result is in [1, max], and it is 1 for houseEdge = 100.
\* (houseEdge and the result are counted in hundredths, eps in 1/10000.)
C18_CrashValue ==
  (Called /\ last.op = "crash") =>
    LET houseEdge == last.args[1]
        max100 == last.args[2] * 100
        eps == IF houseEdge >= 100 THEN houseEdge ELSE houseEdge * 100
    IN /\ last.status = "returned"
       /\ Key(pfn) \in DOMAIN last.read
       /\ LET m == Mantissa(last.read[Key(pfn)])
              v == last.ret[1]
          IN /\ 100 <= v
             /\ v <= max100
             /\ houseEdge = 10000 => v = 100
             \* v is floor(num / den) brought into [100, max100]: above 100
             \* the floor is at least v, below max100 it is at most v
             /\ v > 100 =>
                  v * 100 * (MantissaSize - m) <= (10000 - eps) * MantissaSize
             /\ v < max100 =>
                  (10000 - eps) * MantissaSize
                    < (v + 1) * 100 * (MantissaSize - m)

\* crash has returned a value strictly between 1 and its cap for a house
\* edge given as a fraction
C18_Witness ==
  /\ Called
  /\ last.op = "crash"
  /\ last.args[1] = 50
  /\ last.ret[1] > 100
  /\ last.ret[1] < last.args[2] * 100


\* bit i (1 the most significant) of the number d of width bits
BitAt(d, width, i) == (d \div Pow(2, width - i)) % 2

\* the number formed by the first n bits of d, most significant bit first
RECURSIVE FirstBits(_, _, _)
FirstBits(d, width, n) ==
  IF n = 0 THEN 0 ELSE 2 * FirstBits(d, width, n - 1) + BitAt(d, width, n)

\* C19: random() returns m * 2^-52 for m the integer formed by the first 52
\* bits of the digest, most significant first; so 0 <= random() < 1 at every
\* position and 1.0 is never returned.  (The value is held as m, its
\* numerator over 2^52.)
C19_RandomUnitInterval ==
  /\ (Called /\ last.op = "random") =>
       /\ last.status = "returned"
       /\ Key(pfn) \in DOMAIN last.read
       /\ last.ret = <<FirstBits(last.read[Key(pfn)], DigestBits, MantissaBits)>>
       /\ 0 <= last.ret[1]
       /\ last.ret[1] < MantissaSize
  /\ (Called /\ last.op = "mantissa") =>
       /\ last.ret = <<FirstBits(last.args[1], WideDigestBits, MantissaBits)>>
       /\ 0 <= last.ret[1]
       /\ last.ret[1] < MantissaSize

\* the mantissa of a digest whose first 52 bits are ones and whose later bits
\* are not all ones: the largest value of random()
C19_Witness ==
  /\ Called
  /\ last.op = "mantissa"
  /\ last.ret = <<MantissaSize - 1>>
  /\ last.args[1] % 2 = 0


C21_PumpSelection ==
  (Called /\ last.op = "pump" /\ last.status = "returned") =>
    LET g == last.ret[1]
    IN /\ Len(g.selected) = g.burstPoints
       /\ \A k \in 1 .. Len(g.selected) :
            0 <= g.selected[k] /\ g.selected[k] < g.size
       /\ Distinct(g.selected)
       /\ g.popPoint - 1 \in Elems(g.selected)
       /\ \A e \in Elems(g.selected) : g.popPoint - 1 <= e
       /\ 1 <= g.popPoint
       /\ g.popPoint <= g.size - g.burstPoints + 1
       /\ g.popPoint <= g.size

\* a game of two bursts among three positions with the latest pop point
\* there is, the position taken first being the one moved into its place
C21_Witness ==
  /\ Called
  /\ last.op = "pump"
  /\ last.status = "returned"
  /\ last.ret[1].size = 3
  /\ last.ret[1].selected = <<1, 2>>
  /\ last.ret[1].popPoint = 2


\* the number of ways to choose k of n
RECURSIVE Choose(_, _)
Choose(n, k) ==
  IF k < 0 \/ k > n THEN 0
  ELSE IF k = 0 THEN 1
  ELSE (Choose(n, k - 1) * (n - k + 1)) \div k

\* the fraction f, of a denominator that divides den, as a count of den-ths
Over(f, den) == f.num * (den \div f.den)

\* C22: survivalAt(k) of a pump game is 1 for every integer k <= 0, 0 for
\* every k > size - burstCount, and in between the product over t = 0..k-1 of
\* (size - burstCount - t) / (size - t), which is the number of ways to place
\* the bursts after round k over the number of ways to place them at all; and
\* it never rises from k - 1 to k.
C22_SurvivalAt ==
  (Called /\ last.op = "survivalAt" /\ ~last.args[1].half) =>
    LET k == last.args[1].n
        n == game.size
        b == game.burstPoints
        s == last.ret[1]
        before == survivalAt(game, Whole(k - 1))
    IN /\ last.status = "returned"
       /\ k <= 0 => (s.num = 1 /\ s.den = 1)
       /\ k > n - b => s.num = 0
       /\ (0 < k /\ k <= n - b) =>
            /\ s.num > 0
            /\ Choose(n, b) % s.den = 0
            /\ Over(s, Choose(n, b)) = Choose(n - k, b)
       /\ Choose(n, b) % s.den = 0
       /\ Choose(n, b) % before.den = 0
       /\ Over(s, Choose(n, b)) <= Over(before, Choose(n, b))

\* the last round a game of 17 with 8 bursts can survive: one placement of
\* the bursts in 24310 leaves it standing
C22_Witness ==
  /\ Called
  /\ last.op = "survivalAt"
  /\ game.size = 17
  /\ game.burstPoints = 8
  /\ last.args[1] = Whole(9)
  /\ last.ret[1] = [num |-> 1, den |-> 24310]


\* C23 (as stated): for every pump game and every integer k with
\* 0 <= k < popPoint, payoutMultiplierAt(k) is (1 - edge) / survivalAt(k) to
\* hundredths precision: it differs from the exact quotient by less than 0.01;
\* and payoutMultiplierAt(k) is 0 for every k that is negative, not an integer,
\* or >= popPoint.  (The result is counted in hundredths, so it is the exact
\* quotient of hundredths rounded down or up.)
C23_PayoutMultiplier ==
  (Called /\ last.op = "payoutMultiplierAt") =>
    LET k == last.args[1]
        s == survivalAt(game, k)
    IN IF k.half \/ k.n < 0 \/ k.n >= game.popPoint
       THEN last.status = "returned" /\ last.ret = <<0>>
       ELSE /\ last.status = "returned"
            /\ s.num > 0
            /\ LET num == (10000 - game.edge) * s.den
                   den == 100 * s.num
               IN \/ last.ret = <<num \div den>>
                  \/ num % den # 0 /\ last.ret = <<(num \div den) + 1>>

\* the draw the last call made at position p of the instance s
DrawOf(s, p) == Draw(Mantissa(last.read[Key(AtCounter(s, p))]))

\* the last call read the positions p .. end of s and nothing else of them
\* was left out: for each range of ranges in turn, the draws it rejected and
\* then the one it accepted
RECURSIVE Selects(_, _, _, _)
Selects(s, p, end, ranges) ==
  IF ranges = << >> THEN p = end + 1
  ELSE /\ p <= end
       /\ Key(AtCounter(s, p)) \in DOMAIN last.read
       /\ IF DrawOf(s, p) >= MaxRange(Head(ranges))
          THEN Selects(s, p + 1, end, ranges)
          ELSE Selects(s, p + 1, end, Tail(ranges))

\* the instance pump starts to draw from: opts.nonce and opts.index assigned
PumpEntry(s, opts) ==
  LET s1 == IF "nonce" \in DOMAIN opts THEN [s EXCEPT !.nonce = opts.nonce] ELSE s
  IN IF "index" \in DOMAIN opts THEN [s1 EXCEPT !.index = opts.index] ELSE s1

\* C26 (as stated): each selection of a derived generator consumes exactly
\* one counter unit: shuffle of an n-element array advances the active counter
\* by exactly n, and pump with b burst points advances it by exactly b
\* (counted from the position pump starts from).
C26_OneUnitPerSelection ==
  /\ (Called /\ last.op = "shuffle" /\ last.status = "returned") =>
       (SameMode /\ Counter(pfn) = Counter(last.pre) + Len(last.args[1]))
  /\ (Called /\ last.op = "pump" /\ last.status = "returned") =>
       Counter(pfn) = Counter(PumpEntry(last.pre, last.args[1]))
                        + last.ret[1].burstPoints

\* C26 (amended): each selection consumes one counter unit for the draw it
\* accepts and one for every draw it rejects.  shuffle of an n-element array
\* reads the positions after the one it was entered at, in order, for the
\* ranges n, n - 1, .., 1; pump with b burst points reads those after the
\* position it starts from (opts.nonce or opts.index when given) for the
\* ranges size, size - 1, .., size - b + 1; the counter ends at the position
\* of the last accepted draw, so it advances by n (by b) plus the number of
\* rejected draws; the inactive counter is untouched.
C26_SelectionsAdvance ==
  /\ (Called /\ last.op = "shuffle" /\ last.status = "returned") =>
       LET n == Len(last.args[1])
       IN /\ SameMode
          /\ Selects(pfn, Counter(last.pre) + 1, Counter(pfn),
                     [k \in 1 .. n |-> n - k + 1])
          /\ Counter(pfn) >= Counter(last.pre) + n
  /\ (Called /\ last.op = "pump" /\ last.status = "returned") =>
       LET g == last.ret[1]
           entry == PumpEntry(last.pre, last.args[1])
       IN /\ (entry.index = Null) <=> (pfn.index = Null)
          /\ pfn.index # Null => pfn.nonce = entry.nonce
          /\ Selects(pfn, Counter(entry) + 1, Counter(pfn),
                     [k \in 1 .. g.burstPoints |-> g.size - k + 1])
          /\ Counter(pfn) >= Counter(entry) + g.burstPoints

\* pump has selected two bursts in three positions: a draw was rejected
C26_Witness ==
  /\ Called
  /\ last.op = "pump"
  /\ last.status = "returned"
  /\ last.ret[1].burstPoints = 2
  /\ Counter(pfn) = Counter(last.pre) + 3

\* C28 (as stated): state is unchanged on error: a call that throws
\* (randomInt, randomFloat, randomIntRange, nextInt or nextFloat with
\* max < min, pump with an invalid size or difficulty) leaves nonce, index and
\* clientSeed exactly as they were before the call.
C28_StateUnchangedOnError ==
  (Called /\ last.status = "threw") =>
    /\ pfn.nonce = last.pre.nonce
    /\ pfn.index = last.pre.index
    /\ pfn.clientSeed = last.pre.clientSeed

\* constructor calls of a second instance: a client seed that ends like a
\* nonce, a single client seed that reads like a list of two, and the seeds
\* of CtorArgs
OtherCtorArgs ==
  { [clientSeed |-> Str(<<"a", "-", "0">>), serverSeed |-> <<"s">>, nonce |-> 0,
     index |-> Null],
    [clientSeed |-> Arr(<< <<"a", "|", "b">> >>), serverSeed |-> Undefined,
     nonce |-> 1, index |-> Null],
    [clientSeed |-> Str(<<"a">>), serverSeed |-> <<"s">>, nonce |-> 1,
     index |-> Null],
    [clientSeed |-> Str(<<"a">>), serverSeed |-> <<"s">>, nonce |-> 0,
     index |-> Num(1)] }

\* C29 (as stated): the HMAC message is injective in the seed state: two
\* instances that differ in their client seed (or list of client seeds),
\* nonce, or index/mode never produce the same message string.
C29_MessageInjective ==
  \A c \in OtherCtorArgs :
    \A other \in constructor(c.clientSeed, c.serverSeed, c.nonce, c.index) :
      (/\ ~Falsy(pfn.clientSeed)
       /\ \/ other.clientSeed # pfn.clientSeed
          \/ other.nonce # pfn.nonce
          \/ other.index # pfn.index
          \/ /\ ctor.clientSeed.array
             /\ c.clientSeed.array
             /\ c.clientSeed.v # ctor.clientSeed.v
             /\ pfn.clientSeed = Join(ctor.clientSeed.v))
        => Message(other) # Message(pfn)

\* C30 (as stated): payoutMultiplierAt never throws: for every valid pump
\* configuration, every pop point the selection can give and every k, the call
\* returns a number; the divisor round(survivalAt(k) * 10000) is not zero for
\* any integer k with 0 <= k < popPoint.
C30_PayoutNeverThrows ==
  (Called /\ last.op = "payoutMultiplierAt") =>
    /\ last.status = "returned"
    /\ Len(last.ret) = 1
    /\ LET k == last.args[1]
       IN (~k.half /\ 0 <= k.n /\ k.n < game.popPoint) =>
            MathRound(survivalAt(game, k), 10000) # 0


\* C24 (as stated): V1 and V2 agree: built with the same client seed, server
\* seed and nonce (nonce mode), they return the same integer from
\* randomInt(min, max) and from nextInt(min, max) for every valid range, the
\* same multiplier from crash(houseEdge, max), and are left with equal nonces
\* after each of these calls, for every digest value.
C24_VersionsAgree ==
  (Called /\ "v1" \in DOMAIN last /\ last.v1.pre.nonce = last.pre.nonce) =>
    /\ last.v1.status = last.status
    /\ last.v1.ret = last.ret
    /\ pfnV1.nonce = pfn.nonce

\* C25 (as stated): shuffle(arr) of the first version returns a permutation
\* of its input: the result has the length of the input and the same elements
\* as many times, for every array and every sequence of digests.
C25_ShuffleV1Permutes ==
  (Called /\ "v1" \notin DOMAIN last /\ last.op = "shuffle"
     /\ last.status = "returned") =>
    LET arr == last.args[1]
        out == last.ret[1]
    IN /\ Len(out) = Len(arr)
       /\ \A e \in Elems(arr) \cup Elems(out) :
            Occurrences(out, e) = Occurrences(arr, e)

\* C27 (as stated): randomIntRange(min, max, size, true) of the first version
\* cuts size down to the number of values max - min + 1 when it is larger and
\* ends with exactly that many distinct values of [min, max] in r.u, for every
\* min <= max and every size.
C27_RandomIntRangeV1Unique ==
  (Called /\ "v1" \notin DOMAIN last /\ last.op = "randomIntRange"
     /\ last.args[4] /\ last.args[1] <= last.args[2]) =>
    LET min == last.args[1]
        max == last.args[2]
        size == IF last.args[3] > 0 THEN last.args[3] ELSE 0
    IN /\ last.status = "returned"
       /\ Len(last.ret[1].u) = Min(size, max - min + 1)
       /\ Distinct(last.ret[1].u)
       /\ \A k \in 1 .. Len(last.ret[1].u) :
            min <= last.ret[1].u[k] /\ last.ret[1].u[k] <= max

====
